---------------------------- MODULE Spec2Model ----------------------------
(***************************************************************************)
(* Rolling restart of an autoscaling group (restart_asg.py).               *)
(*                                                                         *)
(* The program is one sequential process (main -> restart_all ->           *)
(* drain_instance / terminate / wait_for_running).  The cloud provider is  *)
(* the environment: the scaling group with its instance list, the compute  *)
(* instances' states, and the container cluster with its paginated host    *)
(* listing.  Provider steps interleave freely with the program's steps.    *)
(*                                                                         *)
(* Time is kept in seconds, relative to the moment the current wait loop   *)
(* computed its end_time (only differences of time.time() are compared).   *)
(***************************************************************************)
EXTENDS Integers, Sequences, FiniteSets, TLC

(* ------------------------------ bounds --------------------------------- *)

\* largest desired capacity of the group
MaxCapacity == 2

\* number of container-host records registered in the cluster: one for each
\* instance the group can start with
MaxHosts == MaxCapacity

\* largest running-task count of a container host
MaxTasks == 1

\* largest time (seconds) the calls around a sleep may take
MaxLatency == 1

\* number of list_container_instances calls of one drain that are followed
MaxListCalls == 3

(* ------------------------- program constants --------------------------- *)

DRAIN_WAIT == 600

\* wait_for_running(..., timeout=10): minutes
TIMEOUT == 10

\* time.sleep(30) in drain_instance and in wait_for_running
POLL_SLEEP == 30

(* ------------------------------- state --------------------------------- *)

VARIABLES
    \* provider: scaling group
    groupExists,          \* the named group matches a group of the provider
    DesiredCapacity,      \* group['DesiredCapacity']
    Instances,            \* group['Instances']: Seq of [InstanceId, LifecycleState]
    \* provider: compute instances
    ec2State,             \* instance id -> State.Name ("none" = id not yet issued)
    \* provider: container cluster
    pages,                \* the pages of list_container_instances, each a Seq of arns
    containerInstances,   \* arn -> [ec2InstanceId, runningTasksCount, status]
    latency,              \* seconds the calls of one turn of a polling loop take
    \* program
    ecs_cluster,          \* TRUE iff --ecs_cluster was given
    pc,                   \* position of the program
    original_instances,   \* main, line 140
    final_instances,      \* main, line 142
    group_info,           \* restart_all, line 85
    g,                    \* position of the loop of line 87 in group_info
    capacity,             \* loop variable of line 87
    instance_ids,         \* loop variable of line 87
    idx,                  \* position of the loop of line 89 (1-based; 0 before it)
    instance_id,          \* loop variable of line 89 (0 before the loop)
    nextToken,            \* response.get('nextToken') of the last listing response
    container_instances,  \* drain_instance, lines 42-45
    listCalls,            \* number of list_container_instances calls of this drain
    container_instance_id,\* drain_instance, line 53 (0 = unset)
    running_tasks,        \* drain_instance, lines 63 and 68
    first_tasks,          \* the value read at line 63
    polls,                \* number of time.sleep(30) of this drain
    timeout_msg,          \* "Timed out waiting for instance to drain." (line 70,
                          \* the program's only timeout message) was printed
    now,                  \* time.time(), relative to the start of the current wait
    end_time,             \* end_time of the current wait, on the same scale
    state,                \* restart_all, line 104 ("unset" before)
    wfr_capacity,         \* wait_for_running: loop variable of line 120
    wfr_instance_ids,     \* wait_for_running: loop variable of line 120
    raised,               \* the exception that left restart_all ("none" if none)
    log                   \* the calls restart_all has made, in order

provVars == <<groupExists, DesiredCapacity, Instances, ec2State, pages,
              containerInstances, latency>>
loopVars == <<original_instances, final_instances, group_info, g, capacity,
              instance_ids, idx, instance_id>>
drainVars == <<nextToken, container_instances, listCalls, container_instance_id,
               running_tasks, first_tasks, polls, timeout_msg>>
timeVars == <<now, end_time>>
wfrVars == <<wfr_capacity, wfr_instance_ids>>
vars == <<provVars, ecs_cluster, pc, loopVars, drainVars, timeVars, state,
          wfrVars, raised, log>>

(* ------------------------------ helpers -------------------------------- *)

\* instance ids the provider can ever issue: the initial ones and one
\* replacement per initial one
Ids == 1..(2 * MaxCapacity)

Arns == 1..MaxHosts

Range(s) == {s[k] : k \in 1..Len(s)}

\* the instance ids of a Seq of instance records
IdsOf(s) == [k \in 1..Len(s) |-> s[k].InstanceId]

\* an inspector that lists every instance of the group, whatever its state
get_groups_unfiltered ==
    IF groupExists THEN << <<DesiredCapacity, IdsOf(Instances)>> >> ELSE <<>>

\* get_groups: one (DesiredCapacity, in-service ids) per matching group
get_groups ==
    IF groupExists
    THEN << <<DesiredCapacity,
              IdsOf(SelectSeq(Instances,
                              LAMBDA r : r.LifecycleState = "InService"))>> >>
    ELSE <<>>

\* [info[1] for info in get_groups(...)]
SnapshotIds(info) == [k \in 1..Len(info) |-> info[k][2]]

\* the pages cut from the hosts 1..MaxHosts with `size` arns a page
PagesOf(size) ==
    LET n == (MaxHosts + size - 1) \div size
    IN  [p \in 1..n |->
            [k \in 1..(IF p * size <= MaxHosts THEN size
                       ELSE MaxHosts - (p - 1) * size) |-> (p - 1) * size + k]]

\* position in container_instances of the first record of the node, 0 if none
\* (lines 50-52: the first match in describe order returns)
RECURSIVE FirstMatch(_, _, _)
FirstMatch(arns, node, k) ==
    IF k > Len(arns) THEN 0
    ELSE IF containerInstances[arns[k]].ec2InstanceId = node THEN k
    ELSE FirstMatch(arns, node, k + 1)

Event(op, id) == [op |-> op, id |-> id]

(* ------------------------------- Init ---------------------------------- *)

\* the container hosts of a cluster: host a belongs to instance a, but for
\* the last host, which may also belong to an instance outside the group (0)
\* or to instance 1 (a second record of that node); all are ACTIVE and run as
\* many tasks, none or MaxTasks
HostConfigs ==
    {[a \in Arns |-> [ec2InstanceId |-> node[a], runningTasksCount |-> t,
                      status |-> "ACTIVE"]] :
     node \in {f \in [Arns -> 0..MaxCapacity] :
                  \A a \in Arns : f[a] = a \/
                                    (a = MaxHosts /\ f[a] \in {0, 1})},
     t \in {0, MaxTasks}}

NoHosts == [a \in Arns |-> [ec2InstanceId |-> 0, runningTasksCount |-> 0,
                            status |-> "ACTIVE"]]

InitProvider ==
    /\ groupExists \in BOOLEAN
    /\ IF groupExists
       THEN /\ DesiredCapacity \in 1..MaxCapacity
            /\ Instances =
                 [k \in 1..DesiredCapacity |->
                     [InstanceId |-> k, LifecycleState |-> "InService"]]
       ELSE /\ DesiredCapacity = 0
            /\ Instances = <<>>
    /\ ec2State = [i \in Ids |-> IF i <= DesiredCapacity THEN "running"
                                 ELSE "none"]
    /\ latency \in {0, MaxLatency}
    /\ ecs_cluster \in BOOLEAN
    /\ IF ecs_cluster /\ groupExists
       THEN /\ pages \in {PagesOf(size) : size \in {1, MaxHosts}}
            /\ containerInstances \in HostConfigs
       ELSE /\ pages = PagesOf(MaxHosts)
            /\ containerInstances = NoHosts

Init ==
    /\ InitProvider
    /\ pc = "main"
    /\ original_instances = <<>>
    /\ final_instances = <<>>
    /\ group_info = <<>>
    /\ g = 0
    /\ capacity = 0
    /\ instance_ids = <<>>
    /\ idx = 0
    /\ instance_id = 0
    /\ nextToken = FALSE
    /\ container_instances = <<>>
    /\ listCalls = 0
    /\ container_instance_id = 0
    /\ running_tasks = 0
    /\ first_tasks = 0
    /\ polls = 0
    /\ timeout_msg = FALSE
    /\ now = 0
    /\ end_time = 0
    /\ state = "unset"
    /\ wfr_capacity = 0
    /\ wfr_instance_ids = <<>>
    /\ raised = "none"
    /\ log = <<>>

(* --------------------------- main, restart_all ------------------------- *)

\* main, line 140: the snapshot taken before the run
MainStart ==
    /\ pc = "main"
    /\ original_instances' = SnapshotIds(get_groups)
    /\ pc' = "restart_all"
    /\ UNCHANGED <<provVars, ecs_cluster, final_instances, group_info, g,
                   capacity, instance_ids, idx, instance_id, drainVars,
                   timeVars, state, wfrVars, raised, log>>

\* restart_all, lines 83-85: the single inspection of the run
RestartAllInspect ==
    /\ pc = "restart_all"
    /\ group_info' = get_groups
    /\ g' = 0
    /\ pc' = "for_group"
    /\ UNCHANGED <<provVars, ecs_cluster, original_instances, final_instances,
                   capacity, instance_ids, idx, instance_id, drainVars,
                   timeVars, state, wfrVars, raised, log>>

\* line 87: the next (capacity, instance_ids) of group_info
ForGroupNext ==
    /\ pc = "for_group"
    /\ g < Len(group_info)
    /\ g' = g + 1
    /\ capacity' = group_info[g + 1][1]
    /\ instance_ids' = group_info[g + 1][2]
    /\ idx' = 0
    /\ pc' = "for_member"
    /\ UNCHANGED <<provVars, ecs_cluster, original_instances, final_instances,
                   group_info, instance_id, drainVars, timeVars, state,
                   wfrVars, raised, log>>

\* line 87 exhausted: restart_all returns
ForGroupEnd ==
    /\ pc = "for_group"
    /\ g >= Len(group_info)
    /\ pc' = "returned"
    /\ UNCHANGED <<provVars, ecs_cluster, loopVars, drainVars, timeVars, state,
                   wfrVars, raised, log>>

\* a loop that reads the k-th member from the membership as it is now
MemberRefetched(k) ==
    LET cur == IF groupExists THEN get_groups[1][2] ELSE <<>>
    IN  IF k <= Len(cur) THEN cur[k] ELSE instance_ids[k]

\* line 89: the k-th member of the list enumerated at inspection time
Member(k) == instance_ids[k]

\* a loop body that goes to the termination request whether or not a
\* cluster is configured
MemberEntryNoDrain == "terminate"

\* where the body of the loop of line 89 starts for a member (lines 90-95)
MemberEntry == IF ecs_cluster THEN "drain" ELSE "terminate"

\* line 89: the next member of the list enumerated at inspection time
ForMemberNext ==
    /\ pc = "for_member"
    /\ idx < Len(instance_ids)
    /\ idx' = idx + 1
    /\ instance_id' = Member(idx + 1)
    /\ pc' = MemberEntry
    /\ UNCHANGED <<provVars, ecs_cluster, original_instances, final_instances,
                   group_info, g, capacity, instance_ids, drainVars, timeVars,
                   state, wfrVars, raised, log>>

\* line 89 exhausted: back to the loop of line 87
ForMemberEnd ==
    /\ pc = "for_member"
    /\ idx >= Len(instance_ids)
    /\ pc' = "for_group"
    /\ UNCHANGED <<provVars, ecs_cluster, loopVars, drainVars, timeVars, state,
                   wfrVars, raised, log>>

\* main, lines 142-149: the snapshot taken after the run
MainFinal ==
    /\ pc = "returned"
    /\ final_instances' = SnapshotIds(get_groups)
    /\ pc' = "done"
    /\ UNCHANGED <<provVars, ecs_cluster, original_instances, group_info, g,
                   capacity, instance_ids, idx, instance_id, drainVars,
                   timeVars, state, wfrVars, raised, log>>

(* ---------------------------- drain_instance -------------------------- *)

\* client.list_container_instances(cluster=ecs_cluster), as lines 41 and 44
\* call it: no nextToken is passed, so the provider answers with its first
\* page, and with a continuation token iff more pages follow
list_container_instances ==
    [containerInstanceArns |-> pages[1], nextToken |-> Len(pages) > 1]

\* get_running_tasks, lines 75-79
get_running_tasks(arn) == containerInstances[arn].runningTasksCount

\* lines 40-42: the first listing call
DrainList ==
    /\ pc = "drain"
    /\ LET response == list_container_instances
       IN  /\ container_instances' = response.containerInstanceArns
           /\ nextToken' = response.nextToken
    /\ listCalls' = 1
    /\ log' = Append(log, Event("drain", instance_id))
    /\ pc' = "drain_list"
    /\ UNCHANGED <<provVars, ecs_cluster, loopVars, container_instance_id,
                   running_tasks, first_tasks, polls, timeout_msg, timeVars,
                   state, wfrVars, raised>>

\* lines 43-45: one more turn of the listing loop
DrainListMore ==
    /\ pc = "drain_list"
    /\ nextToken
    /\ listCalls < MaxListCalls
    /\ LET response == list_container_instances
       IN  /\ container_instances' =
                 container_instances \o response.containerInstanceArns
           /\ nextToken' = response.nextToken
    /\ listCalls' = listCalls + 1
    /\ UNCHANGED <<provVars, ecs_cluster, pc, loopVars, container_instance_id,
                   running_tasks, first_tasks, polls, timeout_msg, timeVars,
                   state, wfrVars,
                   raised, log>>

\* lines 46-52: the position of the node's record among the described hosts
Resolve == FirstMatch(container_instances, instance_id, 1)

\* a drain error that is caught and logged, the node being terminated anyway
DrainErrorSwallowed == "terminate"

\* where an exception raised by drain_instance at line 93 takes the run:
\* line 93 is outside the try of line 95, so it leaves restart_all
DrainErrorTarget == "aborted"

\* lines 46-52, 72: no described host belongs to the node
DrainNotFound ==
    /\ pc = "drain_list"
    /\ ~nextToken
    /\ Resolve = 0
    /\ raised' = "ResolutionError"
    /\ pc' = DrainErrorTarget
    /\ UNCHANGED <<provVars, ecs_cluster, loopVars, drainVars, timeVars, state,
                   wfrVars, log>>

\* lines 53-62: the provider reports failures for the DRAINING transition
DrainRejected ==
    /\ pc = "drain_list"
    /\ ~nextToken
    /\ Resolve # 0
    /\ container_instance_id' = container_instances[Resolve]
    /\ raised' = "DrainRequestError"
    /\ pc' = DrainErrorTarget
    /\ UNCHANGED <<provVars, ecs_cluster, loopVars, nextToken,
                   container_instances, listCalls, running_tasks, first_tasks,
                   polls, timeout_msg, timeVars, state, wfrVars, log>>

\* lines 53-62: the transition is accepted (no failures)
DrainAccepted ==
    /\ pc = "drain_list"
    /\ ~nextToken
    /\ Resolve # 0
    /\ LET arn == container_instances[Resolve]
       IN  /\ container_instance_id' = arn
           /\ containerInstances' =
                 [containerInstances EXCEPT ![arn].status = "DRAINING"]
    /\ pc' = "drain_read"
    /\ UNCHANGED <<groupExists, DesiredCapacity, Instances, ec2State, pages,
                   latency, ecs_cluster, loopVars, nextToken,
                   container_instances, listCalls, running_tasks, first_tasks,
                   polls, timeout_msg, timeVars, state, wfrVars, raised, log>>

\* lines 63-64: the first read of the task count, a call of its own after
\* the DRAINING request; then the budget of the wait
DrainFirstRead ==
    /\ pc = "drain_read"
    /\ running_tasks' = get_running_tasks(container_instance_id)
    /\ first_tasks' = get_running_tasks(container_instance_id)
    /\ polls' = 0
    /\ now' = 0
    /\ end_time' = DRAIN_WAIT
    /\ pc' = "drain_wait"
    /\ UNCHANGED <<provVars, ecs_cluster, loopVars, nextToken,
                   container_instances, listCalls, container_instance_id,
                   timeout_msg, state, wfrVars, raised, log>>

\* the polling loop with `or` for `and`
DrainLoopCondOr == running_tasks # 0 \/ now < end_time

\* line 65: the condition of the polling loop
DrainLoopCond == running_tasks # 0 /\ now < end_time

\* lines 65-68: sleep 30 seconds, then read the task count again
DrainPoll ==
    /\ pc = "drain_wait"
    /\ DrainLoopCond
    /\ now' = now + POLL_SLEEP + latency
    /\ running_tasks' = get_running_tasks(container_instance_id)
    /\ polls' = polls + 1
    /\ UNCHANGED <<provVars, ecs_cluster, pc, loopVars, nextToken,
                   container_instances, listCalls, container_instance_id,
                   first_tasks, timeout_msg, end_time, state, wfrVars, raised,
                   log>>

\* lines 65, 69-70: the loop is left; the timeout message
DrainLoopExit ==
    /\ pc = "drain_wait"
    /\ ~DrainLoopCond
    /\ timeout_msg' = (now > end_time)
    /\ pc' = "drain_return"
    /\ UNCHANGED <<provVars, ecs_cluster, loopVars, nextToken,
                   container_instances, listCalls, container_instance_id,
                   running_tasks, first_tasks, polls, timeVars, state, wfrVars,
                   raised, log>>

\* lines 71, 94: drain_instance returns to restart_all; its locals are gone
DrainReturn ==
    /\ pc = "drain_return"
    /\ log' = Append(log, Event("drained", instance_id))
    /\ nextToken' = FALSE
    /\ container_instances' = <<>>
    /\ listCalls' = 0
    /\ container_instance_id' = 0
    /\ running_tasks' = 0
    /\ first_tasks' = 0
    /\ polls' = 0
    /\ timeout_msg' = FALSE
    /\ now' = 0
    /\ end_time' = 0
    /\ pc' = "terminate"
    /\ UNCHANGED <<provVars, ecs_cluster, loopVars, state, wfrVars, raised>>

(* ------------------------- termination (95-108) ------------------------ *)

\* line 97: the termination request is accepted
TerminateRequest ==
    /\ pc = "terminate"
    /\ log' = Append(log, Event("terminate", instance_id))
    /\ ec2State' = [ec2State EXCEPT ![instance_id] =
                      IF @ = "running" THEN "shutting-down" ELSE @]
    /\ pc' = "term_sleep"
    /\ UNCHANGED <<groupExists, DesiredCapacity, Instances, pages,
                   containerInstances, latency, ecs_cluster, loopVars,
                   drainVars, timeVars, state, wfrVars, raised>>

\* line 97: the termination request raises, the provider having acted on
\* it (the answer was lost) or not
TerminateRequestRaises ==
    /\ pc = "terminate"
    /\ log' = Append(log, Event("terminate", instance_id))
    /\ \E applied \in BOOLEAN :
          ec2State' = [ec2State EXCEPT ![instance_id] =
                         IF applied /\ @ = "running" THEN "shutting-down"
                         ELSE @]
    /\ pc' = "except"
    /\ UNCHANGED <<groupExists, DesiredCapacity, Instances, pages,
                   containerInstances, latency, ecs_cluster, loopVars,
                   drainVars, timeVars, state, wfrVars, raised>>

\* line 98: the 10-second grace delay
TermSleep ==
    /\ pc = "term_sleep"
    /\ log' = Append(log, Event("grace", instance_id))
    /\ pc' = "term_wait"
    /\ UNCHANGED <<provVars, ecs_cluster, loopVars, drainVars, timeVars, state,
                   wfrVars, raised>>

\* lines 99-100: the instance_terminated waiter sees the node terminated
TermWaitReturns ==
    /\ pc = "term_wait"
    /\ ec2State[instance_id] = "terminated"
    /\ log' = Append(log, Event("terminated", instance_id))
    /\ pc' = "wait_for_running"
    /\ UNCHANGED <<provVars, ecs_cluster, loopVars, drainVars, timeVars, state,
                   wfrVars, raised>>

\* line 99: the waiter raises (its attempts ran out, or a call failed)
TermWaitRaises ==
    /\ pc = "term_wait"
    /\ pc' = "except"
    /\ UNCHANGED <<provVars, ecs_cluster, loopVars, drainVars, timeVars, state,
                   wfrVars, raised, log>>

\* lines 102-104: the re-queried state of the node
describe_state == ec2State[instance_id]

\* a handler that compares with a state name the provider never reports
ToleratedNever(st) == st = "Terminated"

\* line 105: the re-queried state that makes the handler go on
Tolerated(st) == st = "terminated"

\* lines 101-106: the node is terminated; continue with the next member
ExceptContinue ==
    /\ pc = "except"
    /\ Tolerated(describe_state)
    /\ state' = describe_state
    /\ pc' = "for_member"
    /\ UNCHANGED <<provVars, ecs_cluster, loopVars, drainVars, timeVars,
                   wfrVars, raised, log>>

\* a handler that requests the termination again instead of raising
ReraiseRetry == "terminate"

\* where the bare raise of line 108 takes the run
ReraiseTarget == "aborted"

\* lines 101-108: any other state; the error is raised again
ExceptReraise ==
    /\ pc = "except"
    /\ ~Tolerated(describe_state)
    /\ state' = describe_state
    /\ raised' = "TerminationError"
    /\ pc' = ReraiseTarget
    /\ UNCHANGED <<provVars, ecs_cluster, loopVars, drainVars, timeVars,
                   wfrVars, log>>

(* --------------------------- wait_for_running -------------------------- *)

\* lines 109, 114-117
WfrStart ==
    /\ pc = "wait_for_running"
    /\ log' = Append(log, Event("wait", instance_id))
    /\ now' = 0
    /\ end_time' = TIMEOUT * 60
    /\ pc' = "wfr_while"
    /\ UNCHANGED <<provVars, ecs_cluster, loopVars, drainVars, state, wfrVars,
                   raised>>

\* lines 118-120: the deadline has not passed; fetch the membership.  The
\* loop of line 120 runs once for the group (not at all if none matches).
WfrFetch ==
    /\ pc = "wfr_while"
    /\ now < end_time
    /\ LET info == get_groups
       IN  IF Len(info) = 0
           THEN /\ now' = now + latency
                /\ UNCHANGED <<pc, wfrVars>>
           ELSE /\ wfr_capacity' = info[1][1]
                /\ wfr_instance_ids' = info[1][2]
                /\ pc' = "wfr_sleep"
                /\ now' = now
    /\ UNCHANGED <<provVars, ecs_cluster, loopVars, drainVars, end_time, state,
                   raised, log>>

\* a readiness test that takes every fetched membership for complete
CountAlwaysReady == FALSE

\* line 123: the readiness test on the fetched membership
CountMismatch == Len(wfr_instance_ids) # wfr_capacity

\* lines 121-125: sleep, the count differs, next turn of the while loop
WfrMismatch ==
    /\ pc = "wfr_sleep"
    /\ CountMismatch
    /\ now' = now + POLL_SLEEP + latency
    /\ pc' = "wfr_while"
    /\ UNCHANGED <<provVars, ecs_cluster, loopVars, drainVars, end_time, state,
                   wfrVars, raised, log>>

\* lines 121-129: sleep, the count matches, call the instance_status_ok waiter
WfrMatch ==
    /\ pc = "wfr_sleep"
    /\ ~CountMismatch
    /\ now' = now + POLL_SLEEP + latency
    /\ pc' = "wfr_health"
    /\ UNCHANGED <<provVars, ecs_cluster, loopVars, drainVars, end_time, state,
                   wfrVars, raised, log>>

\* lines 129-131: the waiter returns; wait_for_running returns
WfrHealthy ==
    /\ pc = "wfr_health"
    /\ log' = Append(log, Event("waited", instance_id))
    /\ pc' = "completed"
    /\ UNCHANGED <<provVars, ecs_cluster, loopVars, drainVars, timeVars, state,
                   wfrVars, raised>>

\* line 129: the waiter raises (its 100 attempts ran out)
WfrHealthRaises ==
    /\ pc = "wfr_health"
    /\ raised' = "WaiterError"
    /\ pc' = "aborted"
    /\ UNCHANGED <<provVars, ecs_cluster, loopVars, drainVars, timeVars, state,
                   wfrVars, log>>

\* line 118: the deadline has passed; wait_for_running falls off its end
\* (no line after the loop: nothing is printed on this path)
WfrDeadline ==
    /\ pc = "wfr_while"
    /\ ~(now < end_time)
    /\ log' = Append(log, Event("waited", instance_id))
    /\ pc' = "completed"
    /\ UNCHANGED <<provVars, ecs_cluster, loopVars, drainVars, timeVars, state,
                   wfrVars, raised>>

\* line 110: "Completed idx/len"; on to the next member (the locals of
\* wait_for_running are gone)
Completed ==
    /\ pc = "completed"
    /\ wfr_capacity' = 0
    /\ wfr_instance_ids' = <<>>
    /\ now' = 0
    /\ end_time' = 0
    /\ pc' = "for_member"
    /\ UNCHANGED <<provVars, ecs_cluster, loopVars, drainVars, state, raised,
                   log>>

(* ------------------------------ provider ------------------------------- *)

progVars == <<ecs_cluster, pc, loopVars, drainVars, timeVars, state, wfrVars,
              raised, log>>

\* the provider is observed for as long as the program runs
Running == pc \notin {"done", "aborted"}

\* the id the provider gives the next instance it launches
NextId == CHOOSE i \in Ids : ec2State[i] = "none" /\
                             \A j \in Ids : ec2State[j] = "none" => i <= j

\* a node that was asked to terminate reaches the terminated state; the
\* tasks still running on it are stopped with it
EnvTerminated(i) ==
    /\ Running
    /\ ec2State[i] = "shutting-down"
    /\ ec2State' = [ec2State EXCEPT ![i] = "terminated"]
    /\ containerInstances' =
          [a \in Arns |->
             IF containerInstances[a].ec2InstanceId = i
             THEN [containerInstances[a] EXCEPT !.runningTasksCount = 0]
             ELSE containerInstances[a]]
    /\ UNCHANGED <<groupExists, DesiredCapacity, Instances, pages, latency,
                   progVars>>

\* the group notices that a member is gone: the member is listed as
\* Terminating from then on (get_groups does not tell a listed Terminating
\* member from one that has left the list) and a replacement is launched
EnvReplace(k) ==
    /\ Running
    /\ Instances[k].LifecycleState \in {"InService", "Pending"}
    /\ ec2State[Instances[k].InstanceId] \in {"shutting-down", "terminated"}
    /\ \E i \in Ids : ec2State[i] = "none"
    /\ Instances' =
          Append([Instances EXCEPT ![k].LifecycleState = "Terminating"],
                 [InstanceId |-> NextId, LifecycleState |-> "Pending"])
    /\ ec2State' = [ec2State EXCEPT ![NextId] = "running"]
    /\ UNCHANGED <<groupExists, DesiredCapacity, pages, containerInstances,
                   latency, progVars>>

\* a pending member comes into service
EnvInService(k) ==
    /\ Running
    /\ Instances[k].LifecycleState = "Pending"
    /\ ec2State[Instances[k].InstanceId] = "running"
    /\ Instances' = [Instances EXCEPT ![k].LifecycleState = "InService"]
    /\ UNCHANGED <<groupExists, DesiredCapacity, ec2State, pages,
                   containerInstances, latency, progVars>>

\* a task of the container host that is being drained stops (from the
\* accepted DRAINING request on)
EnvTaskStops(a) ==
    /\ pc \in {"drain_read", "drain_wait"}
    /\ a = container_instance_id
    /\ containerInstances[a].status = "DRAINING"
    /\ containerInstances[a].runningTasksCount > 0
    /\ containerInstances' =
          [containerInstances EXCEPT ![a].runningTasksCount = @ - 1]
    /\ UNCHANGED <<groupExists, DesiredCapacity, Instances, ec2State, pages,
                   latency, progVars>>

(* --------------------------- specification ----------------------------- *)

Program ==
    \/ MainStart \/ RestartAllInspect
    \/ ForGroupNext \/ ForGroupEnd \/ ForMemberNext \/ ForMemberEnd
    \/ MainFinal
    \/ DrainList \/ DrainListMore \/ DrainNotFound \/ DrainRejected
    \/ DrainAccepted \/ DrainFirstRead \/ DrainPoll \/ DrainLoopExit \/ DrainReturn
    \/ TerminateRequest \/ TerminateRequestRaises \/ TermSleep
    \/ TermWaitReturns \/ TermWaitRaises \/ ExceptContinue \/ ExceptReraise
    \/ WfrStart \/ WfrFetch \/ WfrMismatch \/ WfrMatch \/ WfrHealthy
    \/ WfrHealthRaises \/ WfrDeadline \/ Completed

Provider ==
    \/ \E i \in Ids : EnvTerminated(i)
    \/ \E k \in 1..Len(Instances) : EnvReplace(k)
    \/ \E k \in 1..Len(Instances) : EnvInService(k)
    \/ \E a \in Arns : EnvTaskStops(a)

Next == Program \/ Provider

Spec == Init /\ [][Next]_vars

\* the program is one sequential process that keeps running: every call it
\* makes returns or raises (time.sleep returns, the waiters give up after
\* their attempts), so the step the program is at is eventually taken
LiveSpec == Spec /\ WF_vars(Program)

(* ----------------------------- properties ------------------------------ *)

\* the ids of the log's events of one kind, in order
LogIds(op) ==
    LET f == SelectSeq(log, LAMBDA e : e.op = op)
    IN  [k \in 1..Len(f) |-> f[k].id]

\* s is an initial part of t
IsPrefix(s, t) == Len(s) <= Len(t) /\ \A k \in 1..Len(s) : s[k] = t[k]

\* the members enumerated by the inspection of line 85
Enumerated == IF Len(group_info) = 0 THEN <<>> ELSE group_info[1][2]

\* the inspection of line 85 has happened
Inspected == pc \notin {"main", "restart_all"}

\* the members that serve: listed as in service and running
Serving == {k \in 1..Len(Instances) :
              /\ Instances[k].LifecycleState = "InService"
              /\ ec2State[Instances[k].InstanceId] = "running"}

\* the first n pages of the cluster's listing, concatenated
RECURSIVE PagesUpTo(_)
PagesUpTo(n) == IF n = 0 THEN <<>> ELSE PagesUpTo(n - 1) \o pages[n]

\* C1: in a run that starts with the group at full in-service capacity, the
\* number of members in service never falls below desired capacity minus one
C1_AtMostOneAbsent ==
    (Inspected /\ Len(Enumerated) = DesiredCapacity)
        => Cardinality(Serving) >= DesiredCapacity - 1

\* C2: the termination request for a member is issued only after
\* wait_for_running has been invoked for every member whose termination was
\* requested earlier, and has returned
C2_WaitBeforeNext ==
    \A k \in 1..Len(log) : \A j \in 1..(k - 1) :
        (log[k].op = "terminate" /\ log[j].op = "terminate")
            => \E m \in (j + 1)..(k - 1) : log[m] = Event("waited", log[j].id)

\* C3: whenever wait_for_running returns normally, the member count it last
\* fetched equals the desired capacity
C3_ReturnMeansFull ==
    pc = "completed" => Len(wfr_instance_ids) = wfr_capacity

\* C4: a fatal drain error (node resolved to no container host, or DRAINING
\* rejected) aborts the run: no termination is requested for that node or a
\* later member, and a rejected transition is followed by no task-count poll
C4_DrainErrorAborts ==
    raised \in {"ResolutionError", "DrainRequestError"}
        => /\ pc = "aborted"
           /\ \A k \in idx..Len(instance_ids) :
                 instance_ids[k] \notin Range(LogIds("terminate"))
           /\ LogIds("terminate") = SubSeq(instance_ids, 1, idx - 1)
           /\ raised = "DrainRequestError" => polls = 0 /\ end_time = 0

C4_Witness ==
    /\ raised = "DrainRequestError"
    /\ idx = 2
    /\ LogIds("terminate") = <<instance_ids[1]>>

\* C5: when the termination step raises and the re-queried state is
\* terminated, no error escapes and the run continues with the next member
C5_TerminatedTolerated ==
    [][(pc = "except" /\ ec2State[instance_id] = "terminated" /\ pc' # pc)
          => (pc' = "for_member" /\ raised' = "none" /\ state' = "terminated"
              /\ idx' = idx)]_vars

C5_Witness ==
    /\ state = "terminated"
    /\ pc = "done"
    /\ raised = "none"
    /\ LogIds("terminate") = instance_ids

\* C6: when the termination step raises and the re-queried state is not
\* terminated, the error is raised again and aborts the run with no retry;
\* after the abort the run makes no further call
C6_OtherStateAborts ==
    [][/\ (pc = "except" /\ ec2State[instance_id] # "terminated" /\ pc' # pc)
            => (pc' = "aborted" /\ raised' = "TerminationError")
       /\ pc = "aborted" => UNCHANGED <<pc, log, provVars>>]_vars

C6_Witness ==
    /\ pc = "aborted"
    /\ raised = "TerminationError"
    /\ state = "shutting-down"
    /\ idx < Len(instance_ids)

\* C7: the k-th listing call of drain_instance returns the k-th page, so
\* that the hosts gathered after k calls are the first k pages
C7_FollowsTokens ==
    (pc = "drain_list" /\ listCalls <= Len(pages))
        => container_instances = PagesUpTo(listCalls)

\* C8: termination is requested, and drain invoked, for the members
\* enumerated at inspection only, once each, in discovery order; on normal
\* completion for every one of them
C8_ExactlyEnumerated ==
    /\ IsPrefix(LogIds("terminate"), Enumerated)
    /\ IsPrefix(LogIds("drain"), Enumerated)
    /\ pc \in {"returned", "done"} => LogIds("terminate") = Enumerated

C8_Witness ==
    /\ pc = "done"
    /\ Len(Enumerated) = 2
    /\ \E k \in 1..Len(Instances) :
          /\ Instances[k].InstanceId \notin Range(Enumerated)
          /\ Instances[k].LifecycleState = "InService"

\* C9: whenever main completes normally the final snapshot has desired
\* capacity many ids, none of them in the original snapshot; and from
\* capacity 2, members [1, 2] and no cluster the calls are terminate(1),
\* capacity wait, terminate(2), capacity wait
C9_Scenario ==
    (pc = "done" /\ groupExists)
        => /\ Len(final_instances[1]) = DesiredCapacity
           /\ Range(final_instances[1]) \cap Range(original_instances[1]) = {}
           /\ (DesiredCapacity = 2 /\ original_instances = << <<1, 2>> >>
               /\ ~ecs_cluster)
                 => SelectSeq(log, LAMBDA e : e.op \in {"terminate", "waited"})
                      = <<Event("terminate", 1), Event("waited", 1),
                          Event("terminate", 2), Event("waited", 2)>>

\* C10: once DRAINING is accepted drain_instance returns without raising:
\* with no sleep if the first count is 0, at the first poll that reads 0, or
\* when the budget has elapsed, at most one poll later; then the node is
\* terminated
C10_DrainReturns ==
    /\ [](pc = "drain_wait"
            => /\ polls * POLL_SLEEP <= now
               /\ polls > 0 => now - (POLL_SLEEP + latency) < end_time)
    /\ [](pc = "drain_return"
            => /\ first_tasks = 0 => polls = 0 /\ now = 0
               /\ running_tasks = 0 \/ now >= end_time
               /\ polls > 0 => now - (POLL_SLEEP + latency) < end_time
               /\ raised = "none")
    /\ [][/\ pc = "drain_read" => pc' \in {"drain_read", "drain_wait"}
          /\ pc = "drain_wait" => pc' \in {"drain_wait", "drain_return"}
          /\ (pc = "drain_wait" /\ running_tasks = 0)
                => (now' = now /\ polls' = polls)
          /\ pc = "drain_return" => pc' \in {"drain_return", "terminate"}]_vars

C10_Witness ==
    /\ pc = "drain_return"
    /\ running_tasks # 0
    /\ now >= end_time
    /\ polls * POLL_SLEEP >= DRAIN_WAIT

\* C11: when the named group does not exist, get_groups fails with an error:
\* past its first call (main, line 140) the run has aborted with an error,
\* and it never completes normally
C11_MissingGroupFails ==
    (~groupExists /\ pc # "main")
        => (pc = "aborted" /\ raised # "none")

\* C12: every readiness decision of wait_for_running (the comparison of
\* line 123 and the ids handed to the waiter of line 129) uses a membership
\* fetched after the sleep of line 121: the snapshot decided on is the
\* membership the provider reports when the sleep is over
C12_FreshSnapshot ==
    [][(pc = "wfr_sleep" /\ pc' \in {"wfr_while", "wfr_health"})
          => /\ groupExists
             /\ <<wfr_capacity, wfr_instance_ids>> = get_groups[1]]_vars

\* the number of members the group reports as in service
InServiceCount ==
    Cardinality({k \in 1..Len(Instances) :
                    Instances[k].LifecycleState = "InService"})

\* C13: if the in-service member count never equals the desired capacity
\* while wait_for_running runs, it eventually returns normally, after its
\* deadline of timeout minutes and with no error; the health-check wait is
\* invoked only on a fetched membership of desired-capacity many ids
C13_DeadlineReturn ==
    /\ (pc = "wait_for_running")
          ~> (pc = "completed" \/ InServiceCount = DesiredCapacity)
    /\ [](pc = "wfr_health" => Len(wfr_instance_ids) = wfr_capacity)
    /\ []((pc = "completed" /\ Len(wfr_instance_ids) # wfr_capacity)
            => (now >= end_time /\ end_time = TIMEOUT * 60
                /\ raised = "none"))

C13_Witness ==
    /\ pc = "completed"
    /\ Len(wfr_instance_ids) # wfr_capacity
    /\ InServiceCount # DesiredCapacity
    /\ now >= TIMEOUT * 60
    /\ raised = "none"

\* C14: every soft timeout is logged: when the drain wait is left past its
\* budget of DRAIN_WAIT seconds, and when the capacity wait is left past its
\* budget of timeout minutes with the count still short, a timeout message
\* has been printed before the run goes on
C14_SoftTimeoutsLogged ==
    /\ (pc = "drain_return" /\ now > end_time) => timeout_msg
    /\ (pc = "completed" /\ now > end_time
           /\ Len(wfr_instance_ids) # wfr_capacity) => timeout_msg

\* the first step of a member, and the step that follows a step
FirstOp == IF ecs_cluster THEN "drain" ELSE "terminate"

NextOp(op) ==
    CASE op = "drain" -> "drained"
      [] op = "drained" -> "terminate"
      [] op = "terminate" -> "grace"
      [] op = "grace" -> "terminated"
      [] op = "terminated" -> "wait"
      [] op = "wait" -> "waited"
      [] OTHER -> "none"

\* C15: the steps of a member occur in the order drain (with a cluster
\* only), drain returned, termination request, grace delay, termination-state
\* wait, capacity wait; members do not interleave; with no cluster the
\* drainer and the container provider are never invoked; with one, the
\* termination request of a node directly follows the return of its drain
C15_StepOrder ==
    /\ \A k \in 1..Len(log) :
          IF k = 1 \/ log[k].id # log[k - 1].id
          THEN log[k].op = FirstOp
          ELSE log[k].op = NextOp(log[k - 1].op)
    /\ ~ecs_cluster
          => /\ LogIds("drain") = <<>>
             /\ listCalls = 0 /\ container_instance_id = 0
             /\ \A a \in Arns : containerInstances[a].status = "ACTIVE"
    /\ ecs_cluster
          => \A k \in 1..Len(log) :
                log[k].op = "terminate"
                   => (k > 1 /\ log[k - 1] = Event("drained", log[k].id))

C15_Witness ==
    /\ pc = "done"
    /\ ecs_cluster
    /\ Len(instance_ids) = 2
    /\ [k \in 1..Len(log) |-> log[k].op] =
          <<"drain", "drained", "terminate", "grace", "terminated", "wait",
            "waited",
            "drain", "drained", "terminate", "grace", "terminated", "wait",
            "waited">>

\* the container-host records of the cluster that belong to a node
RecordsOf(node) ==
    {a \in Arns : containerInstances[a].ec2InstanceId = node}

\* C16: a drain goes on past the resolution only for a node with exactly one
\* container-host record: a host is set to DRAINING, and drain_instance
\* waits and returns, only if no other record belongs to the same node
C16_ExactlyOneRecord ==
    /\ \A a \in Arns :
          containerInstances[a].status = "DRAINING"
             => Cardinality(RecordsOf(containerInstances[a].ec2InstanceId)) = 1
    /\ pc \in {"drain_read", "drain_wait", "drain_return"}
          => Cardinality(RecordsOf(instance_id)) = 1
    /\ \A k \in 1..Len(log) :
          log[k].op = "drained" => Cardinality(RecordsOf(log[k].id)) = 1

\* the positions of the group's instances that are in service, and the j-th
\* of them in provider order
InServicePositions ==
    {k \in 1..Len(Instances) : Instances[k].LifecycleState = "InService"}

InServicePosition(j) ==
    CHOOSE k \in InServicePositions :
        Cardinality({m \in InServicePositions : m < k}) = j - 1

\* what the inspector is to return in the provider's present state
InspectorResult ==
    IF groupExists
    THEN << <<DesiredCapacity,
              [j \in 1..Cardinality(InServicePositions) |->
                  Instances[InServicePosition(j)].InstanceId]>> >>
    ELSE <<>>

\* C17: in every provider state get_groups returns one entry per matching
\* group, made of the desired capacity and of the ids of exactly the
\* instances whose lifecycle state is InService, in provider order (pending
\* and terminating ones left out); every caller gets that result, and the
\* call changes nothing at the provider
C17_InServiceFilter ==
    /\ [](get_groups = InspectorResult)
    /\ [][/\ (pc = "main" /\ pc' # pc)
               => original_instances' = SnapshotIds(InspectorResult)
          /\ (pc = "restart_all" /\ pc' # pc) => group_info' = InspectorResult
          /\ (pc = "wfr_while" /\ pc' = "wfr_sleep")
               => <<wfr_capacity', wfr_instance_ids'>> = InspectorResult[1]
          /\ (pc = "returned" /\ pc' # pc)
               => final_instances' = SnapshotIds(InspectorResult)
          /\ (pc \in {"main", "restart_all", "wfr_while", "returned"}
                /\ pc' # pc) => UNCHANGED provVars]_vars

C17_Witness ==
    /\ pc = "wfr_sleep"
    /\ Len(Instances) = 3
    /\ \E k \in 1..2 : Instances[k].LifecycleState = "Terminating"
    /\ Instances[3].LifecycleState = "Pending"
    /\ Len(wfr_instance_ids) = 1
    /\ wfr_capacity = 2

\* C18: the listing loop of drain_instance ends for every cluster with a
\* finite number of pages: it makes no more listing calls than the listing
\* has pages, and after that many calls no continuation token is left
C18_ListingEnds ==
    pc = "drain_list"
        => /\ listCalls <= Len(pages)
           /\ listCalls = Len(pages) => ~nextToken

\* the members this run has terminated: termination requested, node terminated
TerminatedByRun ==
    {i \in Range(LogIds("terminate")) : ec2State[i] = "terminated"}

\* C19: the ids wait_for_running compares with the desired capacity and
\* hands to the health-check wait never hold a node the run has terminated
C19_NoTerminatedCounted ==
    pc \in {"wfr_sleep", "wfr_health"}
        => Range(wfr_instance_ids) \cap TerminatedByRun = {}

====
